---- MODULE Spec2Model ----
(***************************************************************************)
(* Model of src/src/ratelimiter.ts: the Ratelimit facade (limit,           *)
(* blockUntilReady) and the limiters eventualWrite, fixedWindow,           *)
(* slidingWindow and tokenBucket working against a shared redis store.     *)
(*                                                                         *)
(* Several callers share one Ratelimit instance and one store.  A limiter  *)
(* reads Date.now() and builds its keys synchronously, then awaits         *)
(* redis.eval: the script runs atomically on the store at some later       *)
(* store time, and the caller resumes at some still later time.  Keys set  *)
(* with PEXPIRE disappear when the clock reaches their expiry.             *)
(* eventualWrite awaits only its GET; its INCR, and the EXPIRE that may    *)
(* follow, are detached operations the store executes at any later time.   *)
(***************************************************************************)
EXTENDS Integers, Sequences, FiniteSets, Bags, TLC

\* ---------------------------------------------------------------- bounds
MaxTime == 2
MaxTokens == 2
MaxWindow == 2
MaxCalls == 3
MaxTimeout == 1

Callers == {1, 2}          \* the concurrent callers sharing the Ratelimit instance
Identifiers == {"a"}
Waiters == {1}             \* the caller followed when one caller is enough
Timeouts == 0..MaxTimeout
Prefixes == {"p", "p:a"}           \* prefixes of Ratelimit instances sharing a store
KeyIdentifiers == {"a", "a:b", "b"}

\* ------------------------------------------------------ program constants
DefaultPrefix == "@upstash/ratelimit"
SlidingWindowGrace == 1000
TimeoutError == "timeout must be positive"
ResetError == "This should not happen"
StoreError == "store operation failed"   \* the rejection of a failed redis call
NoExpiry == 0 - 1
Null == 0 - 1                  \* the reply of GET for a missing key
MsPerSecond == 1000            \* EXPIRE counts seconds, the clock milliseconds

VARIABLES
  cfg,     \* the RatelimitConfig: limiter kind and its parameters, prefix
  now,     \* wall clock in milliseconds (Date.now() and the store's clock)
  store,   \* redis: key -> [val, exp] (counter) or [updatedAt, tokens, exp]
  call,    \* per caller: position in limit()/blockUntilReady and its locals
  obs,     \* history: what the caller's last script execution saw and did
  hist,    \* history: per key, script executions and admitted responses
  last,    \* history: per identifier, the last executed request
  calls,   \* number of limiter invocations started so far
  pending  \* bag of detached store operations issued and not yet executed

vars == <<cfg, now, store, call, obs, hist, last, calls, pending>>

\* ------------------------------------------------------------ pure helpers
Min(a, b) == IF a <= b THEN a ELSE b

\* Array.prototype.join(":") on strings and numbers
RECURSIVE Join(_)
Join(parts) ==
  IF Len(parts) = 0 THEN ""
  ELSE IF Len(parts) = 1 THEN Head(parts)
  ELSE Head(parts) \o ":" \o Join(Tail(parts))

\* Math.floor(t / w) for t >= 0, w > 0
Bucket(t, w) == t \div w

NoResponse == [success |-> FALSE, limit |-> 0, remaining |-> 0, reset |-> 0]

\* ------------------------------------------------------- store primitives
Exists(st, key) == key \in DOMAIN st

Put(st, key, rec) == [k \in DOMAIN st \cup {key} |-> IF k = key THEN rec ELSE st[k]]

\* INCR: creates the key at 1 (no expiry) or adds one, keeping the expiry
Incr(st, key) ==
  IF Exists(st, key)
  THEN Put(st, key, [st[key] EXCEPT !.val = @ + 1])
  ELSE Put(st, key, [val |-> 1, exp |-> NoExpiry])

\* GET: the counter, or null when the key is missing
Get(st, key) == IF Exists(st, key) THEN st[key].val ELSE Null

\* variant: a missing key reads as null, no default
Coalesce_KeepNull(v, d) == v

\* v ?? d
Coalesce(v, d) == IF v = Null THEN d ELSE v

\* PEXPIRE key ttl, executed at store time t
PExpire(st, key, ttl, t) ==
  IF Exists(st, key) THEN Put(st, key, [st[key] EXCEPT !.exp = t + ttl]) ELSE st

\* EXPIRE key seconds, executed at store time t
Expire(st, key, seconds, t) == PExpire(st, key, seconds * MsPerSecond, t)

\* HMSET key updatedAt u tokens n: creates the hash or overwrites both fields
HMSet(st, key, u, n) ==
  IF Exists(st, key)
  THEN Put(st, key, [st[key] EXCEPT !.updatedAt = u, !.tokens = n])
  ELSE Put(st, key, [updatedAt |-> u, tokens |-> n, exp |-> NoExpiry])

\* the keys still alive at store time t
Unexpired(st, t) ==
  [k \in {j \in DOMAIN st : st[j].exp = NoExpiry \/ st[j].exp > t} |-> st[k]]

\* ---------------------------------------------------------------- scripts
\* variant: the script returns the counter as it was before the INCR
FixedWindowScript_StaleRead(st, key, window, t) ==
  LET st1 == Incr(st, key)
      r == st1[key].val
  IN [store |-> IF r = 1 THEN PExpire(st1, key, window, t) ELSE st1,
      ret |-> r - 1]

\* variant: the script renews the expiry on every call
FixedWindowScript_ExpireAlways(st, key, window, t) ==
  LET st1 == Incr(st, key)
  IN [store |-> PExpire(st1, key, window, t), ret |-> st1[key].val]

\* fixedWindow script: INCR, PEXPIRE on first creation, return the counter
FixedWindowScript(st, key, window, t) ==
  LET st1 == Incr(st, key)
      r == st1[key].val
  IN [store |-> IF r = 1 THEN PExpire(st1, key, window, t) ELSE st1,
      ret |-> r]

\* variant: the previous counter is weighted by the elapsed fraction of the
\* current window instead of the remaining one
SlidingWindowScript_WeightElapsed(st, currentKey, previousKey, tokens, tnow, window, t) ==
  LET cur == IF Exists(st, currentKey) THEN st[currentKey].val ELSE 0
      prev == IF Exists(st, previousKey) THEN st[previousKey].val ELSE 0
      st1 == Incr(st, currentKey)
      newValue == st1[currentKey].val
  IN IF prev * (tnow % window) + cur * window >= tokens * window
     THEN [store |-> st, ret |-> 0]
     ELSE [store |-> IF newValue = 1
                     THEN PExpire(st1, currentKey, window * 2 + SlidingWindowGrace, t)
                     ELSE st1,
           ret |-> tokens - newValue]

\* slidingWindow script: weighted sum of previous and current counter; the
\* comparison prev * (1 - (now % window) / window) + cur >= tokens is taken
\* over the rationals, multiplied through by window.
SlidingWindowScript(st, currentKey, previousKey, tokens, tnow, window, t) ==
  LET cur == IF Exists(st, currentKey) THEN st[currentKey].val ELSE 0
      prev == IF Exists(st, previousKey) THEN st[previousKey].val ELSE 0
      st1 == Incr(st, currentKey)
      newValue == st1[currentKey].val
  IN IF prev * (window - (tnow % window)) + cur * window >= tokens * window
     THEN [store |-> st, ret |-> 0]
     ELSE [store |-> IF newValue = 1
                     THEN PExpire(st1, currentKey, window * 2 + SlidingWindowGrace, t)
                     ELSE st1,
           ret |-> tokens - newValue]

\* variant: a new bucket is stored full, the first request takes no token
TokenBucketScript_FullOnCreate(st, key, maxTokens, interval, refillRate, tnow, t) ==
  IF ~Exists(st, key)
  THEN [store |-> PExpire(HMSet(st, key, tnow, maxTokens), key, interval, t),
        ret |-> <<maxTokens, tnow + interval>>]
  ELSE LET updatedAt == st[key].updatedAt
           tokens == st[key].tokens
       IN IF tnow >= updatedAt + interval
          THEN [store |-> HMSet(st, key, tnow, Min(maxTokens, tokens + refillRate) - 1),
                ret |-> <<Min(maxTokens, tokens + refillRate) - 1, tnow + interval>>]
          ELSE IF tokens > 0
          THEN [store |-> HMSet(st, key, tnow, tokens - 1),
                ret |-> <<tokens - 1, updatedAt + interval>>]
          ELSE [store |-> st, ret |-> <<0, updatedAt + interval>>]

\* variant: the consume branch is taken for tokens >= 0
TokenBucketScript_ConsumeAtZero(st, key, maxTokens, interval, refillRate, tnow, t) ==
  IF ~Exists(st, key)
  THEN [store |-> PExpire(HMSet(st, key, tnow, maxTokens - 1), key, interval, t),
        ret |-> <<maxTokens - 1, tnow + interval>>]
  ELSE LET updatedAt == st[key].updatedAt
           tokens == st[key].tokens
       IN IF tnow >= updatedAt + interval
          THEN [store |-> HMSet(st, key, tnow, Min(maxTokens, tokens + refillRate) - 1),
                ret |-> <<Min(maxTokens, tokens + refillRate) - 1, tnow + interval>>]
          ELSE IF tokens >= 0
          THEN [store |-> HMSet(st, key, tnow, tokens - 1),
                ret |-> <<tokens - 1, updatedAt + interval>>]
          ELSE [store |-> st, ret |-> <<0, updatedAt + interval>>]

\* variant: a denial reports the last update as its reset
TokenBucketScript_ResetAtUpdate(st, key, maxTokens, interval, refillRate, tnow, t) ==
  IF ~Exists(st, key)
  THEN [store |-> PExpire(HMSet(st, key, tnow, maxTokens - 1), key, interval, t),
        ret |-> <<maxTokens - 1, tnow + interval>>]
  ELSE LET updatedAt == st[key].updatedAt
           tokens == st[key].tokens
       IN IF tnow >= updatedAt + interval
          THEN [store |-> HMSet(st, key, tnow, Min(maxTokens, tokens + refillRate) - 1),
                ret |-> <<Min(maxTokens, tokens + refillRate) - 1, tnow + interval>>]
          ELSE IF tokens > 0
          THEN [store |-> HMSet(st, key, tnow, tokens - 1),
                ret |-> <<tokens - 1, updatedAt + interval>>]
          ELSE [store |-> st, ret |-> <<0, updatedAt>>]

\* tokenBucket script: returns {remaining, reset}
TokenBucketScript(st, key, maxTokens, interval, refillRate, tnow, t) ==
  IF ~Exists(st, key)
  THEN [store |-> PExpire(HMSet(st, key, tnow, maxTokens - 1), key, interval, t),
        ret |-> <<maxTokens - 1, tnow + interval>>]
  ELSE LET updatedAt == st[key].updatedAt
           tokens == st[key].tokens
       IN IF tnow >= updatedAt + interval
          THEN [store |-> HMSet(st, key, tnow, Min(maxTokens, tokens + refillRate) - 1),
                ret |-> <<Min(maxTokens, tokens + refillRate) - 1, tnow + interval>>]
          ELSE IF tokens > 0
          THEN [store |-> HMSet(st, key, tnow, tokens - 1),
                ret |-> <<tokens - 1, updatedAt + interval>>]
          ELSE [store |-> st, ret |-> <<0, updatedAt + interval>>]

\* --------------------------------------------------------------- limiters
\* Ratelimit.limit: the key handed to the limiter
LimitKey(identifier) == Join(<<cfg.prefix, identifier>>)

\* The synchronous part of each limiter: Date.now() and the keys.
FixedWindowKeys(identifier, t, window) ==
  [stamp |-> t, bucket |-> Bucket(t, window),
   key |-> Join(<<identifier, ToString(Bucket(t, window))>>),
   previousKey |-> ""]

SlidingWindowKeys(identifier, t, windowSize) ==
  [stamp |-> t, bucket |-> Bucket(t, windowSize),
   key |-> Join(<<identifier, ToString(Bucket(t, windowSize))>>),
   previousKey |-> Join(<<identifier, ToString(Bucket(t, windowSize) - windowSize)>>)]

TokenBucketKeys(identifier, t, intervalDuration) ==
  [stamp |-> t, bucket |-> Bucket(t, intervalDuration),
   key |-> Join(<<identifier, ToString(Bucket(t, intervalDuration))>>),
   previousKey |-> ""]

EventualWriteKeys(identifier, t, windowDuration) ==
  [stamp |-> t, bucket |-> Bucket(t, windowDuration),
   key |-> Join(<<identifier, ToString(Bucket(t, windowDuration))>>),
   previousKey |-> ""]

LimiterKeys(identifier, t) ==
  IF cfg.alg = "fixedWindow" THEN FixedWindowKeys(identifier, t, cfg.window)
  ELSE IF cfg.alg = "eventualWrite" THEN EventualWriteKeys(identifier, t, cfg.window)
  ELSE IF cfg.alg = "slidingWindow" THEN SlidingWindowKeys(identifier, t, cfg.window)
  ELSE TokenBucketKeys(identifier, t, cfg.interval)

\* The responses built from the script results.
EventualWriteResponse(usedTokensAfterUpdate, tokens, bucket, windowDuration) ==
  [success |-> usedTokensAfterUpdate <= tokens,
   limit |-> tokens,
   remaining |-> tokens - usedTokensAfterUpdate,
   reset |-> (bucket + 1) * windowDuration]

\* variant: reset is the last instant of the window
FixedWindowResponse_ResetInsideWindow(usedTokensAfterUpdate, tokens, bucket, windowDuration) ==
  [success |-> usedTokensAfterUpdate <= tokens,
   limit |-> tokens,
   remaining |-> tokens - usedTokensAfterUpdate,
   reset |-> (bucket + 1) * windowDuration - 1]

FixedWindowResponse(usedTokensAfterUpdate, tokens, bucket, windowDuration) ==
  [success |-> usedTokensAfterUpdate <= tokens,
   limit |-> tokens,
   remaining |-> tokens - usedTokensAfterUpdate,
   reset |-> (bucket + 1) * windowDuration]

SlidingWindowResponse(remaining, tokens, currentWindow, windowSize) ==
  [success |-> remaining > 0,
   limit |-> tokens,
   remaining |-> remaining,
   reset |-> (currentWindow + 1) * windowSize]

TokenBucketResponse(ret, maxTokens) ==
  [success |-> ret[1] > 0, limit |-> maxTokens, remaining |-> ret[1], reset |-> ret[2]]

\* ------------------------------------------------------------------ state
IdleCall ==
  [pc |-> "idle", mode |-> "none", prefix |-> "", id |-> "", timeout |-> 0, deadline |-> 0,
   stamp |-> 0, bucket |-> 0, key |-> "", previousKey |-> "",
   res |-> NoResponse, err |-> "", wakeAt |-> 0, ops |-> 0]

NoLast == [seen |-> FALSE, stamp |-> 0, remaining |-> 0, reset |-> 0]

NoObs == [valid |-> FALSE, at |-> 0, pre |-> <<>>, post |-> <<>>, nth |-> 0,
          prior |-> NoLast, pend |-> 0]

NoHist == [n |-> 0, ok |-> 0, liveOk |-> 0, lost |-> 0, errs |-> 0]

WindowConfigs ==
  { [alg |-> a, tokens |-> n, window |-> w, refillRate |-> 1, interval |-> 1,
     maxTokens |-> 1, prefix |-> DefaultPrefix] :
      a \in {"fixedWindow", "slidingWindow"}, n \in 1..MaxTokens, w \in 1..MaxWindow }

BucketConfigs ==
  { [alg |-> "tokenBucket", tokens |-> 1, window |-> 1, refillRate |-> r, interval |-> i,
     maxTokens |-> m, prefix |-> DefaultPrefix] :
      r \in 1..MaxTokens, i \in 1..MaxWindow, m \in 1..MaxTokens }

\* eventualWrite shares its bucket arithmetic with fixedWindow and is
\* followed with one window length, the longest
EventualConfigs ==
  { [alg |-> "eventualWrite", tokens |-> n, window |-> MaxWindow, refillRate |-> 1,
     interval |-> 1, maxTokens |-> 1, prefix |-> DefaultPrefix] : n \in 1..MaxTokens }

Configs == WindowConfigs \cup BucketConfigs \cup EventualConfigs

Init ==
  /\ cfg \in Configs
  /\ now = 0
  /\ store = <<>>
  /\ call = [c \in Callers |-> IdleCall]
  /\ obs = [c \in Callers |-> NoObs]
  /\ hist = <<>>
  /\ last = [i \in Identifiers |-> NoLast]
  /\ calls = 0
  /\ pending = EmptyBag

\* ----------------------------------------------------------------- actions
\* Time passes by one millisecond; expired keys vanish from the store.
Tick ==
  /\ now < MaxTime
  /\ now' = now + 1
  /\ store' = Unexpired(store, now + 1)
  /\ hist' = [k \in DOMAIN hist |->
                IF k \in DOMAIN store' THEN hist[k] ELSE [hist[k] EXCEPT !.liveOk = 0]]
  /\ UNCHANGED <<cfg, call, obs, last, calls, pending>>

\* limit() up to its await: key = prefix:identifier, then the limiter reads
\* the clock, builds its keys and issues redis.eval.
StartLimiter(rec, identifier) ==
  LET k == LimiterKeys(LimitKey(identifier), now)
  IN [rec EXCEPT !.pc = "eval", !.prefix = cfg.prefix, !.id = identifier, !.stamp = k.stamp,
                 !.bucket = k.bucket, !.key = k.key,
                 !.previousKey = k.previousKey, !.ops = @ + 1]

Free(c) == call[c].pc \in {"idle", "done", "failed"}

Limit(c, identifier) ==
  /\ Free(c)
  /\ calls < MaxCalls
  /\ call' = [call EXCEPT ![c] = StartLimiter([IdleCall EXCEPT !.mode = "limit"], identifier)]
  /\ obs' = [obs EXCEPT ![c] = NoObs]
  /\ calls' = calls + 1
  /\ UNCHANGED <<cfg, now, store, hist, last, pending>>

DetachedOp(op, key) == [op |-> op, key |-> key]

\* The caller's awaited operation has run on the store, leaving out.store,
\* and the limiter has built res from its reply.
Observed(c, out, res) ==
  LET key == call[c].key
      h == IF key \in DOMAIN hist THEN hist[key] ELSE NoHist
      h1 == [h EXCEPT !.n = @ + 1,
                      !.ok = @ + (IF res.success THEN 1 ELSE 0),
                      !.liveOk = @ + (IF res.success THEN 1 ELSE 0)]
  IN /\ store' = out.store
     /\ call' = [call EXCEPT ![c].pc = IF call[c].mode = "limit" THEN "done" ELSE "reply",
                             ![c].res = res]
     /\ obs' = [obs EXCEPT ![c] = [valid |-> TRUE, at |-> now, pre |-> store,
                                   post |-> out.store, nth |-> h1.n,
                                   prior |-> last[call[c].id],
                                   pend |-> CopiesIn(DetachedOp("incr", call[c].key), pending)]]
     /\ hist' = [k \in DOMAIN hist \cup {key} |-> IF k = key THEN h1 ELSE hist[k]]
     /\ last' = [last EXCEPT ![call[c].id] =
                   [seen |-> TRUE, stamp |-> call[c].stamp, remaining |-> res.remaining,
                    reset |-> res.reset]]

\* The store runs the caller's script atomically at the current store time;
\* the reply (the limiter's return value) travels back to the caller.
Record(c, out, res) ==
  /\ Observed(c, out, res)
  /\ UNCHANGED <<cfg, now, calls, pending>>

FixedWindowEval(c) ==
  /\ call[c].pc = "eval"
  /\ cfg.alg = "fixedWindow"
  /\ LET out == FixedWindowScript(store, call[c].key, cfg.window, now)
     IN Record(c, out, FixedWindowResponse(out.ret, cfg.tokens, call[c].bucket, cfg.window))

SlidingWindowEval(c) ==
  /\ call[c].pc = "eval"
  /\ cfg.alg = "slidingWindow"
  /\ LET out == SlidingWindowScript(store, call[c].key, call[c].previousKey,
                                    cfg.tokens, call[c].stamp, cfg.window, now)
     IN Record(c, out, SlidingWindowResponse(out.ret, cfg.tokens, call[c].bucket, cfg.window))

TokenBucketEval(c) ==
  /\ call[c].pc = "eval"
  /\ cfg.alg = "tokenBucket"
  /\ LET out == TokenBucketScript(store, call[c].key, cfg.maxTokens, cfg.interval,
                                  cfg.refillRate, call[c].stamp, now)
     IN Record(c, out, TokenBucketResponse(out.ret, cfg.maxTokens))

\* eventualWrite: the store answers the awaited GET; the limiter fires the
\* detached INCR and returns the response built from the value read.
EventualWriteGet(c) ==
  /\ call[c].pc = "eval"
  /\ cfg.alg = "eventualWrite"
  /\ LET usedTokensAfterUpdate == Coalesce(Get(store, call[c].key), 1)
     IN Observed(c, [store |-> store, ret |-> usedTokensAfterUpdate],
                 EventualWriteResponse(usedTokensAfterUpdate, cfg.tokens,
                                       call[c].bucket, cfg.window))
  /\ pending' = pending (+) SetToBag({DetachedOp("incr", call[c].key)})
  /\ UNCHANGED <<cfg, now, calls>>

\* variant: the store acknowledges a detached INCR without applying it
DetachedIncr_Dropped(key) ==
  /\ BagIn(DetachedOp("incr", key), pending)
  /\ store' = store
  /\ pending' = pending (-) SetToBag({DetachedOp("incr", key)})
  /\ UNCHANGED <<cfg, now, call, obs, hist, last, calls>>

\* The store executes a detached INCR; on the reply 1 the callback fires a
\* detached EXPIRE of the key.
DetachedIncr(key) ==
  /\ BagIn(DetachedOp("incr", key), pending)
  /\ store' = Incr(store, key)
  /\ pending' = (pending (-) SetToBag({DetachedOp("incr", key)})) (+)
                 (IF store'[key].val = 1 THEN SetToBag({DetachedOp("expire", key)})
                  ELSE EmptyBag)
  /\ UNCHANGED <<cfg, now, call, obs, hist, last, calls>>

\* The store executes a detached EXPIRE key windowDuration.
DetachedExpire(key) ==
  /\ BagIn(DetachedOp("expire", key), pending)
  /\ store' = Expire(store, key, cfg.window, now)
  /\ pending' = pending (-) SetToBag({DetachedOp("expire", key)})
  /\ UNCHANGED <<cfg, now, call, obs, hist, last, calls>>

\* variant: a failed store call is answered with a denial
FailEval_FailClosed(c) ==
  /\ call[c].pc = "eval"
  /\ call' = [call EXCEPT ![c].pc = IF call[c].mode = "limit" THEN "done" ELSE "reply",
                          ![c].res = [NoResponse EXCEPT !.reset = now + 1],
                          ![c].err = StoreError]
  /\ hist' = LET key == call[c].key
                 h == IF key \in DOMAIN hist THEN hist[key] ELSE NoHist
             IN [k \in DOMAIN hist \cup {key} |->
                   IF k = key THEN [h EXCEPT !.lost = @ + 1] ELSE hist[k]]
  /\ UNCHANGED <<cfg, now, store, obs, last, calls, pending>>

\* The awaited store call (redis.eval, redis.get) is rejected: nothing
\* catches it, so limit() and a blockUntilReady that awaits it reject too.
FailEval(c) ==
  /\ call[c].pc = "eval"
  /\ call' = [call EXCEPT ![c].pc = "failed", ![c].err = StoreError]
  /\ hist' = LET key == call[c].key
                 h == IF key \in DOMAIN hist THEN hist[key] ELSE NoHist
             IN [k \in DOMAIN hist \cup {key} |->
                   IF k = key THEN [h EXCEPT !.lost = @ + 1, !.errs = @ + 1] ELSE hist[k]]
  /\ UNCHANGED <<cfg, now, store, obs, last, calls, pending>>

\* A detached store call is rejected: its promise has no handler, a failed
\* INCR skips the callback that would fire the EXPIRE.
FailDetached(op, key) ==
  /\ BagIn(DetachedOp(op, key), pending)
  /\ pending' = pending (-) SetToBag({DetachedOp(op, key)})
  /\ hist' = [hist EXCEPT ![key].lost = @ + 1]
  /\ UNCHANGED <<cfg, now, store, call, obs, last, calls>>

\* the keys with a detached operation in flight
PendingKeys == {e.key : e \in BagToSet(pending)}

\* variant: only a negative timeout is rejected
BlockUntilReady_NegativeOnly(c, identifier, timeout) ==
  /\ Free(c)
  /\ obs' = [obs EXCEPT ![c] = NoObs]
  /\ IF timeout < 0
     THEN /\ call' = [call EXCEPT ![c] = [IdleCall EXCEPT !.pc = "failed", !.mode = "block",
                                           !.id = identifier, !.timeout = timeout,
                                           !.err = TimeoutError]]
          /\ calls' = calls
     ELSE /\ calls < MaxCalls
          /\ call' = [call EXCEPT ![c] =
                        StartLimiter([IdleCall EXCEPT !.mode = "block", !.timeout = timeout,
                                                      !.deadline = now + timeout],
                                     identifier)]
          /\ calls' = calls + 1
  /\ UNCHANGED <<cfg, now, store, hist, last, pending>>

\* blockUntilReady up to its first await: the timeout check, the deadline
\* and the first limit() call.
BlockUntilReady(c, identifier, timeout) ==
  /\ Free(c)
  /\ obs' = [obs EXCEPT ![c] = NoObs]
  /\ IF timeout <= 0
     THEN /\ call' = [call EXCEPT ![c] = [IdleCall EXCEPT !.pc = "failed", !.mode = "block",
                                           !.id = identifier, !.timeout = timeout,
                                           !.err = TimeoutError]]
          /\ calls' = calls
     ELSE /\ calls < MaxCalls
          /\ call' = [call EXCEPT ![c] =
                        StartLimiter([IdleCall EXCEPT !.mode = "block", !.timeout = timeout,
                                                      !.deadline = now + timeout],
                                     identifier)]
          /\ calls' = calls + 1
  /\ UNCHANGED <<cfg, now, store, hist, last, pending>>

\* variant: the sleep lasts until reset, whatever the deadline
BlockUntilReadyResume_SleepUntilReset(c) ==
  /\ call[c].pc = "reply"
  /\ call[c].mode = "block"
  /\ call' = [call EXCEPT ![c] =
                IF call[c].res.success THEN [@ EXCEPT !.pc = "done"]
                ELSE IF call[c].res.reset = 0
                THEN [@ EXCEPT !.pc = "failed", !.err = ResetError]
                ELSE [@ EXCEPT !.pc = "sleep",
                               !.wakeAt = now + (call[c].res.reset - now)]]
  /\ UNCHANGED <<cfg, now, store, obs, hist, last, calls, pending>>

\* blockUntilReady resumes with the response: return on success, throw on
\* reset = 0, otherwise sleep until min(reset, deadline).
BlockUntilReadyResume(c) ==
  /\ call[c].pc = "reply"
  /\ call[c].mode = "block"
  /\ call' = [call EXCEPT ![c] =
                IF call[c].res.success THEN [@ EXCEPT !.pc = "done"]
                ELSE IF call[c].res.reset = 0
                THEN [@ EXCEPT !.pc = "failed", !.err = ResetError]
                ELSE [@ EXCEPT !.pc = "sleep",
                               !.wakeAt = now + (Min(call[c].res.reset, call[c].deadline) - now)]]
  /\ UNCHANGED <<cfg, now, store, obs, hist, last, calls, pending>>

\* The timer fires (no earlier than it is due): return the last response
\* when the deadline has passed, otherwise call limit() again.
BlockUntilReadyWake(c) ==
  /\ call[c].pc = "sleep"
  /\ now >= call[c].wakeAt
  /\ IF now > call[c].deadline
     THEN /\ call' = [call EXCEPT ![c].pc = "done"]
          /\ UNCHANGED <<obs, calls, pending>>
     ELSE /\ calls < MaxCalls
          /\ call' = [call EXCEPT ![c] = StartLimiter(call[c], call[c].id)]
          /\ obs' = [obs EXCEPT ![c] = NoObs]
          /\ calls' = calls + 1
  /\ UNCHANGED <<cfg, now, store, hist, last, pending>>

NextFixedWindow ==
  \/ Tick
  \/ \E c \in Callers, i \in Identifiers : Limit(c, i)
  \/ \E c \in Callers : FixedWindowEval(c)

NextSlidingWindow ==
  \/ Tick
  \/ \E c \in Callers, i \in Identifiers : Limit(c, i)
  \/ \E c \in Callers : SlidingWindowEval(c)

NextTokenBucket ==
  \/ Tick
  \/ \E c \in Callers, i \in Identifiers : Limit(c, i)
  \/ \E c \in Callers : TokenBucketEval(c)

\* blockUntilReady callers over a fixedWindow limiter
NextBlock ==
  \/ Tick
  \/ \E c \in Callers, i \in Identifiers, t \in Timeouts : BlockUntilReady(c, i, t)
  \/ \E c \in Callers : FixedWindowEval(c)
  \/ \E c \in Callers : BlockUntilReadyResume(c)
  \/ \E c \in Callers : BlockUntilReadyWake(c)

\* limit() callers over an eventualWrite limiter
NextEventualWrite ==
  \/ Tick
  \/ \E c \in Callers, i \in Identifiers : Limit(c, i)
  \/ \E c \in Callers : EventualWriteGet(c)
  \/ \E k \in PendingKeys : DetachedIncr(k)
  \/ \E k \in PendingKeys : DetachedExpire(k)

\* limit() callers over a limiter of any of the four kinds
NextLimit ==
  \/ Tick
  \/ \E c \in Callers, i \in Identifiers : Limit(c, i)
  \/ \E c \in Callers : FixedWindowEval(c)
  \/ \E c \in Callers : SlidingWindowEval(c)
  \/ \E c \in Callers : TokenBucketEval(c)
  \/ \E c \in Callers : EventualWriteGet(c)
  \/ \E k \in PendingKeys : DetachedIncr(k)
  \/ \E k \in PendingKeys : DetachedExpire(k)

\* new Ratelimit({ redis, limiter, prefix }) over the same store and with
\* the same limiter: the callers go on with the new instance
Construct(prefix) ==
  /\ cfg.prefix # prefix
  /\ cfg' = [cfg EXCEPT !.prefix = prefix]
  /\ UNCHANGED <<now, store, call, obs, hist, last, calls, pending>>

\* Ratelimit instances with different prefixes over one store
KeyConfigs ==
  { [alg |-> "fixedWindow", tokens |-> MaxTokens, window |-> MaxWindow, refillRate |-> 1,
     interval |-> 1, maxTokens |-> 1, prefix |-> p] : p \in Prefixes }

InitKeys ==
  /\ cfg \in KeyConfigs
  /\ now = 0
  /\ store = <<>>
  /\ call = [c \in Callers |-> IdleCall]
  /\ obs = [c \in Callers |-> NoObs]
  /\ hist = <<>>
  /\ last = [i \in KeyIdentifiers |-> NoLast]
  /\ calls = 0
  /\ pending = EmptyBag

NextKeys ==
  \/ Tick
  \/ \E p \in Prefixes : Construct(p)
  \/ \E c \in Callers, i \in KeyIdentifiers : Limit(c, i)
  \/ \E c \in Callers : FixedWindowEval(c)

\* one caller using limit() and blockUntilReady on a limiter of any kind,
\* against a store whose operations can fail
NextFail ==
  \/ Tick
  \/ \E c \in Waiters, i \in Identifiers, t \in Timeouts : BlockUntilReady(c, i, t)
  \/ \E c \in Waiters, i \in Identifiers : Limit(c, i)
  \/ \E c \in Waiters : FixedWindowEval(c)
  \/ \E c \in Waiters : SlidingWindowEval(c)
  \/ \E c \in Waiters : TokenBucketEval(c)
  \/ \E c \in Waiters : EventualWriteGet(c)
  \/ \E k \in PendingKeys : DetachedIncr(k)
  \/ \E k \in PendingKeys : DetachedExpire(k)
  \/ \E c \in Waiters : BlockUntilReadyResume(c)
  \/ \E c \in Waiters : BlockUntilReadyWake(c)
  \/ \E c \in Waiters : FailEval(c)
  \/ \E e \in BagToSet(pending) : FailDetached(e.op, e.key)

InitOf(alg) == Init /\ cfg.alg = alg

SpecFixedWindow == InitOf("fixedWindow") /\ [][NextFixedWindow]_vars
SpecSlidingWindow == InitOf("slidingWindow") /\ [][NextSlidingWindow]_vars
SpecTokenBucket == InitOf("tokenBucket") /\ [][NextTokenBucket]_vars
SpecBlock == InitOf("fixedWindow") /\ [][NextBlock]_vars
SpecEventualWrite == InitOf("eventualWrite") /\ [][NextEventualWrite]_vars
SpecLimit == Init /\ [][NextLimit]_vars
SpecKeys == InitKeys /\ [][NextKeys]_vars
SpecFail == Init /\ [][NextFail]_vars

\* The store executes every operation it has received.
FairDetached ==
  /\ WF_vars(\E k \in PendingKeys : DetachedIncr(k))
  /\ WF_vars(\E k \in PendingKeys : DetachedExpire(k))

\* one caller of an eventualWrite limiter and the store working off its
\* detached operations
NextDetached ==
  \/ Tick
  \/ \E c \in Waiters, i \in Identifiers : Limit(c, i)
  \/ \E c \in Waiters : EventualWriteGet(c)
  \/ \E k \in PendingKeys : DetachedIncr(k)
  \/ \E k \in PendingKeys : DetachedExpire(k)

SpecDetached == InitOf("eventualWrite") /\ [][NextDetached]_vars /\ FairDetached

\* one caller using limit() and blockUntilReady on a fixedWindow limiter
NextWait ==
  \/ Tick
  \/ \E c \in Waiters, i \in Identifiers, t \in Timeouts : BlockUntilReady(c, i, t)
  \/ \E c \in Waiters, i \in Identifiers : Limit(c, i)
  \/ \E c \in Waiters : FixedWindowEval(c)
  \/ \E c \in Waiters : BlockUntilReadyResume(c)
  \/ \E c \in Waiters : BlockUntilReadyWake(c)

\* Scheduling of blockUntilReady: time passes, the store answers every eval,
\* the awaiting caller is resumed and a due timer fires.
FairWait ==
  /\ WF_vars(Tick)
  /\ \A c \in Waiters :
       /\ WF_vars(FixedWindowEval(c))
       /\ WF_vars(BlockUntilReadyResume(c))
       /\ WF_vars(BlockUntilReadyWake(c))

SpecWait == InitOf("fixedWindow") /\ [][NextWait]_vars /\ FairWait

TypeOK ==
  /\ cfg \in Configs \cup KeyConfigs
  /\ now \in 0..MaxTime
  /\ calls \in 0..MaxCalls
  /\ \A c \in Callers : call[c].pc \in {"idle", "eval", "reply", "sleep", "done", "failed"}

\* ------------------------------------------------------ claim vocabulary
\* the response of caller c's last executed script and what the script did
Res(c) == call[c].res
Pre(c) == obs[c].pre
Post(c) == obs[c].post
Key(c) == call[c].key
PreCount(c, key) == IF key \in DOMAIN Pre(c) THEN Pre(c)[key].val ELSE 0
PostCount(c, key) == IF key \in DOMAIN Post(c) THEN Post(c)[key].val ELSE 0
OthersUntouched(c, keys) ==
  /\ DOMAIN Post(c) \ keys = DOMAIN Pre(c) \ keys
  /\ \A k \in DOMAIN Post(c) \ keys : Post(c)[k] = Pre(c)[k]
\* the script ran at a store time inside the bucket the caller stamped
RanInBucket(c, w) == Bucket(obs[c].at, w) = call[c].bucket
Decided(c, alg) == cfg.alg = alg /\ obs[c].valid

\* ---------------------------------------------------------------- C1
FixedWindowDecision(c) ==
  /\ PostCount(c, Key(c)) = PreCount(c, Key(c)) + 1
  /\ Res(c).remaining = cfg.tokens - PostCount(c, Key(c))
  /\ Res(c).success = (PostCount(c, Key(c)) <= cfg.tokens)

\* C1 as stated: every Fixed Window response has remaining = N - count for the
\* post-increment count and success iff count <= N, and so at most N calls per
\* (identifier, bucket) key succeed and the (N+1)-th and later call on that key
\* is denied with remaining <= 0.
C1_AsStated ==
  /\ \A c \in Callers : Decided(c, "fixedWindow") =>
       /\ FixedWindowDecision(c)
       /\ obs[c].nth > cfg.tokens => (~Res(c).success /\ Res(c).remaining <= 0)
  /\ cfg.alg = "fixedWindow" => \A k \in DOMAIN hist : hist[k].ok <= cfg.tokens

\* C1 amended: every Fixed Window response has remaining = N - count for the
\* post-increment count and success iff count <= N; at most N calls succeed on
\* one incarnation of a bucket's counter (from the INCR that creates it until
\* it expires), and a call that finds the counter at N or more is denied with
\* negative remaining.
C1_FixedWindowCounts ==
  /\ \A c \in Callers : Decided(c, "fixedWindow") =>
       /\ FixedWindowDecision(c)
       /\ PreCount(c, Key(c)) >= cfg.tokens => (~Res(c).success /\ Res(c).remaining < 0)
  /\ cfg.alg = "fixedWindow" => \A k \in DOMAIN hist : hist[k].liveOk <= cfg.tokens

\* two callers stamped at the same instant on one key, one admitted and one
\* denied beyond the quota
C1_Witness ==
  \E c, d \in Callers :
    /\ c # d /\ Decided(c, "fixedWindow") /\ obs[d].valid
    /\ Key(c) = Key(d) /\ call[c].stamp = call[d].stamp
    /\ Res(c).success /\ ~Res(d).success /\ Res(d).remaining < 0

\* ---------------------------------------------------------------- C2
\* C2 as stated: a denied Fixed Window call leaves the bucket's counter as it
\* was before the call.
C2_AsStated ==
  \A c \in Callers : (Decided(c, "fixedWindow") /\ ~Res(c).success) =>
    PostCount(c, Key(c)) = PreCount(c, Key(c))

\* C2 amended: a denied Fixed Window call adds exactly one to the bucket's
\* counter, keeps that counter's expiry, and changes no other key.
C2_DeniedCallIncrements ==
  \A c \in Callers : (Decided(c, "fixedWindow") /\ ~Res(c).success) =>
    /\ Key(c) \in DOMAIN Pre(c)
    /\ Post(c)[Key(c)] = [Pre(c)[Key(c)] EXCEPT !.val = @ + 1]
    /\ OthersUntouched(c, {Key(c)})

\* a denied call executed later than the creation of its counter
C2_Witness ==
  \E c \in Callers :
    /\ Decided(c, "fixedWindow") /\ ~Res(c).success
    /\ Pre(c)[Key(c)].exp # obs[c].at + cfg.window

\* ---------------------------------------------------------------- C3
\* C3: a denied Sliding Window call, the one with remaining = 0 included,
\* leaves the current and the previous counter unchanged.
C3_DeniedLeavesCounters ==
  \A c \in Callers : (Decided(c, "slidingWindow") /\ ~Res(c).success) =>
    /\ PostCount(c, Key(c)) = PreCount(c, Key(c))
    /\ PostCount(c, call[c].previousKey) = PreCount(c, call[c].previousKey)

\* ---------------------------------------------------------------- C4
EmptyBucketHit(c) ==
  /\ Decided(c, "tokenBucket")
  /\ Key(c) \in DOMAIN Pre(c)
  /\ Pre(c)[Key(c)].tokens <= 0
  /\ call[c].stamp < Pre(c)[Key(c)].updatedAt + cfg.interval

\* C4: a Token Bucket request that finds a record with no tokens before its
\* refill is due is denied, returns reset = updatedAt + interval and writes
\* nothing.
C4_EmptyBucketDenied ==
  \A c \in Callers : EmptyBucketHit(c) =>
    /\ ~Res(c).success
    /\ Res(c).reset = Pre(c)[Key(c)].updatedAt + cfg.interval
    /\ Post(c) = Pre(c)

C4_Witness == \E c \in Callers : EmptyBucketHit(c) /\ DOMAIN Pre(c) # {}

C6_RefillAddsRate ==
  \A c \in Callers :
    ( /\ Decided(c, "tokenBucket")
      /\ obs[c].prior.seen /\ obs[c].prior.remaining = 0
      /\ call[c].stamp >= obs[c].prior.stamp + cfg.interval ) =>
    Res(c).remaining = Min(cfg.maxTokens, 0 + cfg.refillRate) - 1

\* ---------------------------------------------------------------- C7
\* C7: a Token Bucket request that finds a fresh bucket or a record with at
\* least one token is admitted, so a new bucket admits maxTokens requests.
C7_TokenAvailableAdmits ==
  \A c \in Callers : Decided(c, "tokenBucket") =>
    /\ (Key(c) \notin DOMAIN Pre(c) \/ Pre(c)[Key(c)].tokens >= 1) => Res(c).success
    /\ (RanInBucket(c, cfg.interval) /\ obs[c].nth <= cfg.maxTokens) => Res(c).success

\* ---------------------------------------------------------------- C8
PrecedingKey(c) == Join(<<LimitKey(call[c].id), ToString(call[c].bucket - 1)>>)

\* C8 as stated: a Sliding Window request at the first instant of a bucket,
\* with the bucket just before it filled to N and the current counter 0, is
\* admitted.
C8_AsStated ==
  \A c \in Callers :
    ( /\ Decided(c, "slidingWindow")
      /\ call[c].stamp % cfg.window = 0
      /\ PreCount(c, PrecedingKey(c)) = cfg.tokens
      /\ PreCount(c, Key(c)) = 0 ) =>
    Res(c).success

FirstInstantAfterFull(c) ==
  /\ Decided(c, "slidingWindow")
  /\ call[c].stamp % cfg.window = 0
  /\ PreCount(c, call[c].previousKey) = cfg.tokens
  /\ PreCount(c, Key(c)) = 0

\* C8 amended: a Sliding Window request at the first instant of a bucket, with
\* the current counter 0 and the counter the script reads as previous filled
\* to N, is denied with remaining 0 and changes no counter: at weight 0 the
\* previous count is taken in full.
C8_BoundaryDenies ==
  \A c \in Callers : FirstInstantAfterFull(c) =>
    /\ ~Res(c).success
    /\ Res(c).remaining = 0
    /\ Post(c) = Pre(c)

C8_Witness ==
  \E c \in Callers :
    /\ FirstInstantAfterFull(c)
    /\ call[c].previousKey = PrecedingKey(c)
    /\ call[c].bucket > 0

\* ---------------------------------------------------------------- C9
\* C9: with the previous-bucket counter absent, the first N Sliding Window
\* requests of a bucket succeed and the (N+1)-th fails.
C9_AllowsTokensRequests ==
  \A c \in Callers :
    ( /\ Decided(c, "slidingWindow")
      /\ call[c].previousKey \notin DOMAIN Pre(c)
      /\ PrecedingKey(c) \notin DOMAIN Pre(c) ) =>
    /\ obs[c].nth <= cfg.tokens => Res(c).success
    /\ obs[c].nth = cfg.tokens + 1 => ~Res(c).success

\* ---------------------------------------------------------------- C10
\* C10: blockUntilReady with timeout <= 0 fails with the timeout error and
\* issues no store operation.
C10_NonPositiveTimeoutFails ==
  \A c \in Callers : (call[c].mode = "block" /\ call[c].timeout <= 0) =>
    /\ call[c].pc = "failed"
    /\ call[c].err = TimeoutError
    /\ call[c].ops = 0
    /\ ~obs[c].valid

\* a caller failed on its timeout while another one got a response
C10_Witness ==
  \E c, d \in Callers :
    /\ call[c].mode = "block" /\ call[c].timeout <= 0 /\ call[c].pc = "failed"
    /\ call[d].mode = "block" /\ call[d].timeout > 0 /\ call[d].ops > 0 /\ obs[d].valid

\* ---------------------------------------------------------------- C11
Blocking(c) == call[c].mode = "block" /\ call[c].pc \in {"eval", "reply", "sleep"}
TimedOut(c) == call[c].mode = "block" /\ call[c].pc = "done" /\ ~Res(c).success

\* C11: blockUntilReady with timeout > 0: every sleep it starts is due no later
\* than deadline = start + timeout; a call whose deadline the clock passes
\* (the clock is followed up to MaxTime) eventually returns; and a call that
\* returns a denial does so after the deadline, with the response of the last
\* limit() call it made.
C11_ReturnsByDeadline ==
  /\ [](\A c \in Callers : call[c].pc = "sleep" => call[c].wakeAt <= call[c].deadline)
  /\ [](\A c \in Callers : TimedOut(c) =>
          /\ now > call[c].deadline
          /\ obs[c].valid
          /\ Res(c) = FixedWindowResponse(PostCount(c, Key(c)), cfg.tokens,
                                          call[c].bucket, cfg.window))
  /\ \A c \in Callers :
       (Blocking(c) /\ call[c].deadline < MaxTime) ~> (call[c].pc \in {"done", "failed"})

\* a call returned its last denial after the deadline, having polled twice
C11_Witness ==
  \E c \in Callers : TimedOut(c) /\ call[c].ops >= 2 /\ now > call[c].deadline

\* ---------------------------------------------------------------- C12
\* C12: blockUntilReady never busy-polls: every sleep it starts lasts a
\* strictly positive time, and the limit() call that follows a sleep is made
\* at a later clock instant than the one before it.
C12_NeverBusyPolls ==
  [][\A c \in Callers :
       /\ (call[c].pc = "reply" /\ call'[c].pc = "sleep") => call'[c].wakeAt > now
       /\ (call[c].pc = "sleep" /\ call'[c].pc = "eval") => call'[c].stamp > call[c].stamp]_vars

\* ---------------------------------------------------------------- C13
\* C13: whatever the algorithm, a response with success = false carries a
\* reset strictly greater than the clock value the limiter read for that
\* decision; in particular reset is not 0, the value on which blockUntilReady
\* throws.
C13_DeniedResetInFuture ==
  \A c \in Callers : (obs[c].valid /\ ~Res(c).success) =>
    /\ Res(c).reset > call[c].stamp
    /\ Res(c).reset # 0

\* a tokenBucket caller denied on an empty bucket that another caller filled,
\* its script running later than its clock reading
C13_Witness ==
  \E c \in Callers :
    /\ Decided(c, "tokenBucket") /\ ~Res(c).success
    /\ Key(c) \in DOMAIN Pre(c) /\ Pre(c)[Key(c)].tokens = 0
    /\ obs[c].at > call[c].stamp
    /\ call[c].stamp > Pre(c)[Key(c)].updatedAt

\* ---------------------------------------------------------------- C14
\* caller c is the only user of the limiter and made its call at the very
\* instant the previous response named as reset
RoundTrip(c) ==
  /\ obs[c].valid
  /\ obs[c].prior.seen
  /\ call[c].stamp = obs[c].prior.reset
  /\ \A d \in Callers \ {c} : call[d].mode = "none"

\* C14 as stated: a call made at exactly the reset of the previous response,
\* with no other caller in between, finds every counter or record it reads
\* absent, the previous-bucket counter of Sliding Window included.
C14_AsStated ==
  \A c \in Callers : RoundTrip(c) =>
    /\ Key(c) \notin DOMAIN Pre(c)
    /\ cfg.alg = "slidingWindow" => call[c].previousKey \notin DOMAIN Pre(c)

\* C14 amended: such a call finds the counter or record of its own bucket
\* absent; for Fixed Window, Token Bucket and Eventual Write it gets the
\* response of a first request, remaining = limit - 1.  (The previous-bucket
\* counter Sliding Window reads may still hold requests.)
C14_ResetRoundTrip ==
  \A c \in Callers : RoundTrip(c) =>
    /\ Key(c) \notin DOMAIN Pre(c)
    /\ cfg.alg # "slidingWindow" => Res(c).remaining = Res(c).limit - 1

\* a Sliding Window call at the reset instant that reads a previous-bucket
\* counter left by the caller's earlier request
C14_Witness ==
  \E c \in Callers :
    /\ RoundTrip(c) /\ cfg.alg = "slidingWindow"
    /\ Key(c) \notin DOMAIN Pre(c)
    /\ call[c].previousKey \in DOMAIN Pre(c)

\* ---------------------------------------------------------------- C15
\* the (prefix, identifier, bucket) tuple behind the key caller c built
KeyTuple(c) == <<call[c].prefix, call[c].id, call[c].bucket>>

\* C15: the store key is injective on (prefix, identifier, bucket): two calls
\* that built the same key were made for the same tuple, so a call made for
\* one tuple never finds a counter that a call for another tuple created.
C15_KeyInjective ==
  \A c, d \in Callers :
    (call[c].ops > 0 /\ call[d].ops > 0 /\ Key(c) = Key(d)) => KeyTuple(c) = KeyTuple(d)

\* ---------------------------------------------------------------- C16
\* a store operation awaited by caller c's call was rejected
AwaitedFailed(c) == call[c].err = StoreError

\* C16 as stated: whenever a store operation issued for a limit() call fails,
\* the read, the script, the increment and the expire alike, that call (and a
\* blockUntilReady that made it) ends in the error: every failed operation on
\* a key is matched by a call on that key that ended in the error.
C16_AsStated ==
  /\ \A c \in Callers : AwaitedFailed(c) => (call[c].pc = "failed" /\ ~obs[c].valid)
  /\ \A k \in DOMAIN hist : hist[k].lost = hist[k].errs

\* C16 amended: a failed awaited operation (the script of Fixed Window,
\* Sliding Window and Token Bucket, the GET of Eventual Write) ends limit()
\* and the blockUntilReady that made it in that error, with no response and no
\* further operation; for the three scripted limiters every failed operation
\* ends a call.  (A failed detached INCR or EXPIRE of Eventual Write reaches
\* no call.)
C16_AwaitedFailureEndsCall ==
  /\ \A c \in Callers : AwaitedFailed(c) => (call[c].pc = "failed" /\ ~obs[c].valid)
  /\ \A k \in DOMAIN hist :
       /\ hist[k].errs <= hist[k].lost
       /\ cfg.alg # "eventualWrite" => hist[k].lost = hist[k].errs

\* Eventual Write: a blockUntilReady call ended by the failure of its GET,
\* on a key where an earlier call kept its response although its detached
\* INCR failed
C16_Witness ==
  \E c \in Callers :
    /\ cfg.alg = "eventualWrite"
    /\ call[c].mode = "block" /\ AwaitedFailed(c) /\ call[c].pc = "failed"
    /\ hist[Key(c)].errs = 1
    /\ hist[Key(c)].lost = 2
    /\ hist[Key(c)].ok = 1

\* ---------------------------------------------------------------- C17
\* the value caller c's GET returned, with the default for a missing key
UsedRead(c) == IF Key(c) \in DOMAIN Pre(c) THEN Pre(c)[Key(c)].val ELSE 1

\* C17: Eventual Write decides on the counter as read, before its own
\* increment and any increment still in flight: success iff that value is
\* <= tokens; a run of sequential requests admits tokens + 1 per counter, and
\* a request admitted beyond that read the counter while an increment of an
\* earlier request was still in flight.
C17_RaceAdmitsMore ==
  \A c \in Callers : Decided(c, "eventualWrite") =>
    /\ Res(c).success = (UsedRead(c) <= cfg.tokens)
    /\ Res(c).remaining = cfg.tokens - UsedRead(c)
    /\ (Res(c).success /\ obs[c].nth > cfg.tokens + 1) => obs[c].pend > 0

\* two callers read the same counter value before either increment was
\* applied, both were admitted, and the bucket has admitted more requests
\* than any sequential run admits
C17_Witness ==
  \E c, d \in Callers :
    /\ c # d /\ Decided(c, "eventualWrite") /\ obs[d].valid
    /\ Key(c) = Key(d)
    /\ Get(Pre(c), Key(c)) = Get(Pre(d), Key(d))
    /\ obs[c].pend > 0
    /\ Res(c).success /\ Res(d).success
    /\ hist[Key(c)].ok > cfg.tokens + 1

\* ---------------------------------------------------------------- C18
PendingIncrs(key) == CopiesIn(DetachedOp("incr", key), pending)
Applied(key) == IF key \in DOMAIN store THEN store[key].val ELSE 0

\* C18: Eventual Write fires exactly one detached increment per decision
\* (increments applied plus increments in flight equal the decisions made on
\* the counter), and a store that executes what it receives applies every one
\* of them: the operations in flight drain and the counter then equals the
\* number of decided requests.
C18_IncrementsApplied ==
  /\ [](\A k \in DOMAIN hist : Applied(k) + PendingIncrs(k) = hist[k].n)
  /\ (pending # EmptyBag) ~>
       (pending = EmptyBag /\ \A k \in DOMAIN hist : Applied(k) = hist[k].n)

\* a caller holds its decision while its increment, the first of the bucket,
\* has not reached the store
C18_Witness ==
  \E c \in Callers :
    /\ Decided(c, "eventualWrite") /\ call[c].pc = "done"
    /\ obs[c].nth = 1
    /\ PendingIncrs(Key(c)) = 1
    /\ Key(c) \notin DOMAIN store

\* ---------------------------------------------------------------- C20
\* C20: with every earlier increment applied before a request reads, the n-th
\* Eventual Write request of a bucket gets the success and remaining Fixed
\* Window gives its n-th request, so exactly tokens requests per bucket
\* succeed.
C20_AgreesWithFixedWindow ==
  \A c \in Callers : (Decided(c, "eventualWrite") /\ obs[c].pend = 0) =>
    LET fw == FixedWindowResponse(obs[c].nth, cfg.tokens, call[c].bucket, cfg.window)
    IN /\ Res(c).success = fw.success
       /\ Res(c).remaining = fw.remaining

\* ---------------------------------------------------------------- C19
\* C19: Sliding Window weighs the window immediately preceding the current
\* one (bucket index currentBucket - 1): when that window holds p > 0
\* requests, a request at offset t into the current window with
\* p * (1 - t/W) + currentCount >= tokens is denied, for any window length W.
C19_PrecedingWindowSmooths ==
  \A c \in Callers :
    ( /\ Decided(c, "slidingWindow")
      /\ PreCount(c, PrecedingKey(c)) > 0
      /\ PreCount(c, PrecedingKey(c)) * (cfg.window - (call[c].stamp % cfg.window))
           + PreCount(c, Key(c)) * cfg.window >= cfg.tokens * cfg.window ) =>
    ~Res(c).success

====
